---- MODULE Spec2Model ----
(***************************************************************************)
(* Model of module/migration.js of the Shadowrun 5e system for Foundry     *)
(* VTT: the world migration (migrateWorld, migrateCompendium) and the      *)
(* entity migrators (migrateActorData, migrateItemData, migrateSceneData)  *)
(* with their field rules.                                                 *)
(*                                                                         *)
(* JavaScript values are represented as follows.                           *)
(*   undefined        the record Undefined                                 *)
(*   a number n       Num(n)                                               *)
(*   a string         Str(s), s a sequence of one-character strings        *)
(*   an array         Arr(a), a a sequence                                 *)
(*   an object        a function from its own keys to their values; the    *)
(*                    empty object {} is the empty function <<>>           *)
(* A call that may throw returns Ok(v) or Throw(e).                        *)
(***************************************************************************)
EXTENDS Integers, Sequences, FiniteSets, TLC

(* ------------------------------------------------------------------ *)
(*  Bounds of the model                                                *)
(* ------------------------------------------------------------------ *)

\* longest legacy specs string drawn as an input
MaxLen == 3
\* most Items an Actor input owns
MaxOwned == 2
\* most Tokens a Scene input holds
MaxTokens == 2
\* most world entities, packs and pack entities together in a world that
\* migrateWorld runs on
MaxWorld == 3

(* ------------------------------------------------------------------ *)
(*  JavaScript values                                                  *)
(* ------------------------------------------------------------------ *)

Undefined == [t |-> "undefined"]
Num(n) == [t |-> "number", n |-> n]
Str(s) == [t |-> "string", s |-> s]
Arr(a) == [t |-> "array", a |-> a]
EmptyObject == <<>>

Ok(v) == [threw |-> FALSE, value |-> v]
Throw(e) == [threw |-> TRUE, value |-> e]

\* o[k] of an object, undefined for a key the object does not own
Prop(o, k) == IF k \in DOMAIN o THEN o[k] ELSE Undefined

\* o with o[k] = v
SetProp(o, k, v) == [x \in DOMAIN o \cup {k} |-> IF x = k THEN v ELSE o[x]]

\* isObjectEmpty(o): the object owns no key
isObjectEmpty(o) == DOMAIN o = {}

\* Array.isArray(v)
IsArray(v) == v.t = "array"

IsString(v) == v.t = "string"

(* ------------------------------------------------------------------ *)
(*  Item rules and the Item migrator                                   *)
(* ------------------------------------------------------------------ *)

\* the action literal of _migrateItemsAddActions
DefaultAction ==
    [type |-> "", category |-> "", attribute |-> "", attribute2 |-> "",
     skill |-> "", spec |-> FALSE, mod |-> 0,
     limit |-> [value |-> 0, attribute |-> ""],
     extended |-> FALSE,
     damage |-> [type |-> "", element |-> "", value |-> 0,
                 ap |-> [value |-> 0], attribute |-> ""],
     opposed |-> [type |-> "", attribute |-> "", attribute2 |-> "",
                  skill |-> "", mod |-> 0, description |-> ""]]

\* An Item is [name, type, data], data an object that may own "action"
\* and "capacity".
_migrateItemsAddActions(item, updateData) ==
    IF item.type \in {"quality", "cyberware"}
       /\ Prop(item.data, "action") = Undefined
    THEN LET withData == IF "data" \in DOMAIN updateData
                         THEN updateData
                         ELSE SetProp(updateData, "data", EmptyObject)
         IN Ok(SetProp(withData, "data",
                       SetProp(withData.data, "action", DefaultAction)))
    ELSE Ok(updateData)

\* updateData.data.capacity = 0 dereferences updateData.data, which only
\* _migrateItemsAddActions creates: without it the assignment is a TypeError.
_migrateItemsAddCapacity(item, updateData) ==
    IF item.type \in {"cyberware"}
       /\ Prop(item.data, "capacity") = Undefined
    THEN IF "data" \in DOMAIN updateData
         THEN Ok(SetProp(updateData, "data",
                         SetProp(updateData.data, "capacity", Num(0))))
         ELSE Throw("TypeError")
    ELSE Ok(updateData)

migrateItemData(item) ==
    LET r1 == _migrateItemsAddActions(item, EmptyObject)
    IN IF r1.threw THEN r1 ELSE _migrateItemsAddCapacity(item, r1.value)

\* mergeObject(i, itemUpdate, {inplace: false}) for an Item patch, and the
\* effect of Item.update(patch): the keys of patch.data overwrite those of
\* the Item's data.
MergeItem(item, patch) ==
    IF "data" \in DOMAIN patch
    THEN [item EXCEPT !.data =
            [k \in DOMAIN item.data \cup DOMAIN patch.data |->
                IF k \in DOMAIN patch.data THEN patch.data[k]
                ELSE item.data[k]]]
    ELSE item

(* ------------------------------------------------------------------ *)
(*  Actor rules and the Actor migrator                                 *)
(* ------------------------------------------------------------------ *)

OverflowPath == "track.physical.overflow"
OverflowValueKey == "data.track.physical.overflow.value"
OverflowMaxKey == "data.track.physical.overflow.max"

\* the six update keys of _migrateActorSkills, in the order it sets them
SkillGroups ==
    << "data.skills.active",
       "data.skills.knowledge.street.value",
       "data.skills.knowledge.professional.value",
       "data.skills.knowledge.academic.value",
       "data.skills.knowledge.interests.value",
       "data.skills.language.value" >>

SkillGroupSet == {SkillGroups[i] : i \in 1..Len(SkillGroups)}

\* the characters of splitRegex = /[,\/|.]+/
SplitChars == {",", "/", "|", "."}

RECURSIVE RunEnd(_, _)
\* the first index at or after q that holds no split character
RunEnd(s, q) ==
    IF q <= Len(s) /\ s[q] \in SplitChars THEN RunEnd(s, q + 1) ELSE q

RECURSIVE SplitFrom(_, _, _)
\* String.prototype.split over splitRegex: p starts the current token, q is
\* the position tried next; a match of the regex takes the whole run.
SplitFrom(s, p, q) ==
    IF q > Len(s) THEN << SubSeq(s, p, Len(s)) >>
    ELSE IF s[q] \in SplitChars
         THEN << SubSeq(s, p, q - 1) >> \o SplitFrom(s, RunEnd(s, q), RunEnd(s, q))
         ELSE SplitFrom(s, p, q + 1)

split(s) == SplitFrom(s, 1, 1)

\* val.specs.split(splitRegex).filter(s => s !== '')
SplitSpecs(s) == SelectSeq(split(s), LAMBDA tok : tok # <<>>)

\* One step of the reducer for the skill val of key: a specs that is not an
\* array is split; a specs that is no string either has no split method.
ReducerThrows(val) ==
    LET specs == Prop(val, "specs")
    IN ~IsArray(specs) /\ ~IsString(specs)

\* ReduceGroup with the legacy shape checked per group: a group that holds
\* an array specs counts as migrated and is skipped whole
ReduceGroupPerGroup(group) ==
    IF \E k \in DOMAIN group : ReducerThrows(group[k])
    THEN Throw("TypeError")
    ELSE IF \E k \in DOMAIN group : IsArray(group[k].specs)
         THEN Ok(EmptyObject)
         ELSE Ok([k \in DOMAIN group |->
                    [specs |-> Arr(SplitSpecs(group[k].specs.s))]])

\* Object.entries(group).reduce(reducer, {})
ReduceGroup(group) ==
    IF \E k \in DOMAIN group : ReducerThrows(group[k])
    THEN Throw("TypeError")
    ELSE Ok([k \in {x \in DOMAIN group : ~IsArray(group[x].specs)} |->
                [specs |-> Arr(SplitSpecs(group[k].specs.s))]])

_migrateActorOverflow(actor, updateData) ==
    IF Prop(actor.data, OverflowPath) = Num(0)
    THEN Ok(SetProp(SetProp(updateData, OverflowValueKey, Num(0)),
                    OverflowMaxKey, Num(0)))
    ELSE Ok(updateData)

\* the skill groups read by actor.data.skills. ...: a missing skills object
\* or a missing group is a TypeError
GroupOf(actor, g) ==
    LET skills == Prop(actor.data, "skills")
    IN IF skills = Undefined THEN Undefined ELSE Prop(skills, g)

RECURSIVE MigrateGroups(_, _, _)
\* the six assignments of _migrateActorSkills from the i-th on
MigrateGroups(actor, updateData, i) ==
    IF i > Len(SkillGroups) THEN Ok(updateData)
    ELSE LET g == SkillGroups[i]
             group == GroupOf(actor, g)
         IN IF group = Undefined THEN Throw("TypeError")
            ELSE LET r == ReduceGroup(group)
                 IN IF r.threw THEN r
                    ELSE MigrateGroups(actor, SetProp(updateData, g, r.value), i + 1)

_migrateActorSkills(actor, updateData) == MigrateGroups(actor, updateData, 1)

\* the owned Items after actor.items.map: each Item with a non-empty patch
\* is replaced by its merge with the patch
MapItems(items) ==
    [n \in 1..Len(items) |->
        LET itemUpdate == migrateItemData(items[n])
        IN IF ~isObjectEmpty(itemUpdate.value)
           THEN MergeItem(items[n], itemUpdate.value)
           ELSE items[n]]

\* An Actor is an object owning "name", "data" and "items"; an Actor-data
\* override of a Token is an object that may own any of them.
migrateActorData(actor) ==
    LET r1 == _migrateActorOverflow(actor, EmptyObject)
        r2 == _migrateActorSkills(actor, r1.value)
        items == Prop(actor, "items")
    IN IF r2.threw THEN r2
       ELSE IF items = Undefined THEN r2
       ELSE IF \E n \in 1..Len(items.a) : migrateItemData(items.a[n]).threw
            THEN Throw("TypeError")
       ELSE LET hasItemUpdates ==
                    \E n \in 1..Len(items.a) :
                        ~isObjectEmpty(migrateItemData(items.a[n]).value)
            IN IF hasItemUpdates
               THEN Ok(SetProp(r2.value, "items", Arr(MapItems(items.a))))
               ELSE r2

\* Entity.update(patch) on an Actor, and mergeObject(actorData, patch) on a
\* Token's Actor-data override: the dotted keys are expanded and merged in.
\* A scalar overflow is overwritten by the {value, max} object; a skill
\* patch {key: {specs}} is merged into the skill of that key; the items
\* array is replaced whole.
MergeOverflow(data, patch) ==
    IF OverflowValueKey \in DOMAIN patch
    THEN LET old == Prop(data, OverflowPath)
             base == IF "t" \in DOMAIN old THEN EmptyObject ELSE old
         IN SetProp(data, OverflowPath,
                    SetProp(SetProp(base, "value", patch[OverflowValueKey]),
                            "max", patch[OverflowMaxKey]))
    ELSE data

MergeGroup(group, gpatch) ==
    [k \in DOMAIN group \cup DOMAIN gpatch |->
        IF k \in DOMAIN gpatch
        THEN SetProp(Prop(group, k), "specs", gpatch[k].specs)
        ELSE group[k]]

MergeSkills(data, patch) ==
    IF DOMAIN patch \cap SkillGroupSet = {} THEN data
    ELSE SetProp(data, "skills",
            [g \in DOMAIN data.skills \cup (DOMAIN patch \cap SkillGroupSet) |->
                IF g \in DOMAIN patch
                THEN MergeGroup(Prop(data.skills, g), patch[g])
                ELSE data.skills[g]])

MergeActor(actor, patch) ==
    LET withData == IF DOMAIN patch \ {"items"} = {} THEN actor
                    ELSE SetProp(actor, "data",
                            MergeSkills(MergeOverflow(actor.data, patch), patch))
    IN IF "items" \in DOMAIN patch
       THEN SetProp(withData, "items", patch.items)
       ELSE withData

(* ------------------------------------------------------------------ *)
(*  The Scene migrator                                                 *)
(* ------------------------------------------------------------------ *)

Null == [t |-> "null"]
Id(i) == [t |-> "id", id |-> i]

\* !v for the values a Token field takes
Falsy(v) == v = Undefined \/ v = Null

\* new Token(t).actor: the world Actor of t.actorId, null when the world
\* holds no Actor of that id
TokenActorResolves(t, actorIds) ==
    /\ t.actorId.t = "id"
    /\ t.actorId.id \in actorIds

\* The callback of tokens.map for one duplicated Token t
MigrateToken(t, actorIds) ==
    IF Falsy(t.actorId) \/ t.actorLink \/ Falsy(Prop(t.actorData, "data"))
    THEN Ok([t EXCEPT !.actorData = EmptyObject])
    ELSE IF ~TokenActorResolves(t, actorIds)
         THEN Ok([t EXCEPT !.actorId = Null, !.actorData = EmptyObject])
         ELSE LET updateData == migrateActorData(t.actorData)
              IN IF updateData.threw THEN updateData
                 ELSE Ok([t EXCEPT !.actorData =
                            MergeActor(t.actorData, updateData.value)])

\* A Scene is [name, tokens]. actorIds are the ids of game.actors, which
\* new Token(t) reads.
migrateSceneData(scene, actorIds) ==
    LET tokens == scene.tokens.a
    IN IF \E n \in 1..Len(tokens) : MigrateToken(tokens[n], actorIds).threw
       THEN Throw("TypeError")
       ELSE Ok([tokens |->
                  Arr([n \in 1..Len(tokens) |->
                          MigrateToken(tokens[n], actorIds).value])])

\* Scene.update(patch): the tokens array is replaced whole
MergeScene(scene, patch) ==
    IF "tokens" \in DOMAIN patch
    THEN [scene EXCEPT !.tokens = patch.tokens]
    ELSE scene

(* ------------------------------------------------------------------ *)
(*  Dispatch on the entity kind                                        *)
(* ------------------------------------------------------------------ *)

\* the migrator migrateWorld and migrateCompendium call for an entity of
\* kind Actor, Item or Scene
MigrateEntity(kind, doc, actorIds) ==
    IF kind = "Item" THEN migrateItemData(doc)
    ELSE IF kind = "Actor" THEN migrateActorData(doc)
    ELSE migrateSceneData(doc, actorIds)

\* the stored data of an entity after its update(patch) resolved
UpdateEntity(kind, doc, patch) ==
    IF kind = "Item" THEN MergeItem(doc, patch)
    ELSE IF kind = "Actor" THEN MergeActor(doc, patch)
    ELSE MergeScene(doc, patch)

(* ------------------------------------------------------------------ *)
(*  Inputs of the migrators                                            *)
(* ------------------------------------------------------------------ *)

Chars == {"a", "b"} \cup SplitChars

\* the strings over Chars of length at most n
Strings(n) == UNION {[1..m -> Chars] : m \in 0..n}

MigratedSpecs == Arr(<< <<"a">>, <<"b">> >>)
LegacySpecs == Str(<<"a", "/", "b">>)

\* a specs field: a legacy string, a migrated array, or malformed
SpecsInputs ==
    {Str(s) : s \in Strings(MaxLen)}
        \cup {Arr(<<>>), MigratedSpecs, Undefined, Num(3)}

Skill(specs) == [value |-> Num(2), specs |-> specs]

\* a skill that owns no specs at all
BareSkill == [value |-> Num(2)]

\* a skill group of at most two keys
GroupInputs ==
    {EmptyObject, [k1 |-> BareSkill]}
        \cup {[k1 |-> Skill(s)] : s \in SpecsInputs}
        \cup {[k1 |-> Skill(s), k2 |-> Skill(s2)] :
                s \in SpecsInputs, s2 \in {MigratedSpecs, LegacySpecs}}

\* the other five groups of an Actor input, all alike
RestInputs == {EmptyObject, [k1 |-> Skill(LegacySpecs)], [k1 |-> Skill(MigratedSpecs)]}

Skills(active, rest) ==
    [g \in SkillGroupSet |-> IF g = SkillGroups[1] THEN active ELSE rest]

LegacySkills == Skills([k1 |-> Skill(LegacySpecs), k2 |-> Skill(MigratedSpecs)],
                       [k1 |-> Skill(LegacySpecs)])
MigratedSkills == Skills([k1 |-> Skill(MigratedSpecs)], EmptyObject)

CustomAction == [DefaultAction EXCEPT !.type = "simple", !.mod = 2]

ItemData(action, capacity) ==
    [k \in (IF action = Undefined THEN {} ELSE {"action"})
            \cup (IF capacity = Undefined THEN {} ELSE {"capacity"}) |->
        IF k = "action" THEN action ELSE capacity]

Item(type, action, capacity) ==
    [name |-> "item", type |-> type, data |-> ItemData(action, capacity)]

ItemInputs ==
    {Item(type, action, capacity) :
        type \in {"quality", "cyberware", "weapon"},
        action \in {Undefined, CustomAction},
        capacity \in {Undefined, Num(0), Num(4)}}

\* the sequences over S of length at most n
SeqsUpTo(S, n) == UNION {[1..m -> S] : m \in 0..n}

OverflowInputs == {Undefined, Num(0), Num(3), [value |-> Num(3), max |-> Num(5)]}

ActorDoc(overflow, skills, items) ==
    [name |-> "actor",
     data |-> IF overflow = Undefined
              THEN [skills |-> skills]
              ELSE (OverflowPath :> overflow) @@ [skills |-> skills],
     items |-> Arr(items)]

StaleQuality == Item("quality", Undefined, Undefined)
CyberwareWithAction == Item("cyberware", CustomAction, Undefined)

\* the Actor-data override of a Token: a partial Actor
OverrideInputs ==
    { EmptyObject,
      [name |-> "override"],
      [data |-> EmptyObject],
      [data |-> (OverflowPath :> Num(0)) @@ [skills |-> LegacySkills]],
      [data |-> [skills |-> MigratedSkills], items |-> Arr(<<StaleQuality>>)],
      [data |-> [skills |-> MigratedSkills], items |-> Arr(<<CyberwareWithAction>>)] }

\* the ids of the world's Actors that a Token may name
WorldActorIds == {"A1"}

TokenInputs ==
    {[actorId |-> id, actorLink |-> link, actorData |-> override] :
        id \in {Null, Id("A1"), Id("A9")},
        link \in BOOLEAN,
        override \in OverrideInputs}

SceneDoc(tokens) == [name |-> "scene", tokens |-> Arr(tokens)]

(* ------------------------------------------------------------------ *)
(*  migrateWorld and migrateCompendium                                 *)
(* ------------------------------------------------------------------ *)

VARIABLES
    world,      \* game.actors / game.items / game.scenes: kind -> stored entities
    packs,      \* game.packs: [package, entity, content] each
    pc,         \* where migrateWorld stands: [at, k, p, i]
    pending,    \* the host calls awaited and not yet settled
    log,        \* what the run did so far, in order
    version,    \* how often game.settings.set recorded the schema version
    initial,    \* the world and the packs as they were when migrateWorld began
    hEnt,       \* the entity a migrator is applied to on its own
    hStage,     \* how far that application went
    hRes,       \* what the migrator returned for the entity
    hRes2       \* what it returned again once the patch was applied

vars == <<world, packs, pc, pending, log, version, initial, hEnt, hStage, hRes, hRes2>>

runVars == <<world, packs, pc, pending, log, version, initial>>
harnessVars == <<hEnt, hStage, hRes, hRes2>>

\* the order of the three world loops
WorldKinds == <<"Actor", "Item", "Scene">>

EntityKinds == {"Actor", "Item", "Scene"}

\* ids of the world's Actors: the i-th Actor of game.actors has id ActorIds[i]
ActorIds == <<"A1", "A2", "A3", "A4", "A5", "A6">>

GameActorIds(w) == {ActorIds[i] : i \in 1..Len(w["Actor"])}

\* game.packs.filter(...): the indices of the world's own packs of an
\* entity kind, in order
RECURSIVE EligibleFrom(_, _)
EligibleFrom(ps, n) ==
    IF n > Len(ps) THEN <<>>
    ELSE IF ps[n].package = "world" /\ ps[n].entity \in EntityKinds
         THEN <<n>> \o EligibleFrom(ps, n + 1)
         ELSE EligibleFrom(ps, n + 1)

EligiblePacks(ps) == EligibleFrom(ps, 1)

WorldTarget(kind, i) == [src |-> "world", p |-> 0, kind |-> kind, i |-> i]
PackTarget(p, kind, i) == [src |-> "pack", p |-> p, kind |-> kind, i |-> i]

Outcome(r) ==
    IF r.threw THEN "threw"
    ELSE IF isObjectEmpty(r.value) THEN "empty" ELSE "patch"

MigrateEvent(target, r) == [ev |-> "migrate", target |-> target, outcome |-> Outcome(r)]
UpdateEvent(target, patch) == [ev |-> "update", target |-> target, patch |-> patch]
SettleEvent(target, ok) == [ev |-> "settle", target |-> target, ok |-> ok]
IoEvent(call, p, ok) == [ev |-> "io", call |-> call, p |-> p, ok |-> ok]
VersionEvent == [ev |-> "version"]

UpdateCall(target, patch) == [call |-> "update", target |-> target, patch |-> patch]
PackCall(call, p) == [call |-> call, p |-> p]

\* MigrateWorldEntity with the try block around the whole loop: a throw of
\* the migrator ends the loop
MigrateWorldEntityAbortsLoop ==
    /\ pc.at = "world"
    /\ pc.i <= Len(world[WorldKinds[pc.k]])
    /\ LET kind == WorldKinds[pc.k]
           target == WorldTarget(kind, pc.i)
           updateData == MigrateEntity(kind, world[kind][pc.i], GameActorIds(world))
       IN IF ~updateData.threw /\ ~isObjectEmpty(updateData.value)
          THEN /\ pending' = pending \cup {UpdateCall(target, updateData.value)}
               /\ log' = log \o <<MigrateEvent(target, updateData),
                                  UpdateEvent(target, updateData.value)>>
               /\ pc' = [pc EXCEPT !.at = "awaitUpdate"]
          ELSE /\ pending' = pending
               /\ log' = Append(log, MigrateEvent(target, updateData))
               /\ pc' = IF updateData.threw
                        THEN [pc EXCEPT !.i = Len(world[kind]) + 1]
                        ELSE [pc EXCEPT !.i = pc.i + 1]
    /\ UNCHANGED <<world, packs, version, initial, harnessVars>>

\* MigrateWorldEntity without the await: the update is called and the loop
\* goes on to the next entity at once
MigrateWorldEntityNoAwait ==
    /\ pc.at = "world"
    /\ pc.i <= Len(world[WorldKinds[pc.k]])
    /\ LET kind == WorldKinds[pc.k]
           target == WorldTarget(kind, pc.i)
           updateData == MigrateEntity(kind, world[kind][pc.i], GameActorIds(world))
       IN IF ~updateData.threw /\ ~isObjectEmpty(updateData.value)
          THEN /\ pending' = pending \cup {UpdateCall(target, updateData.value)}
               /\ log' = log \o <<MigrateEvent(target, updateData),
                                  UpdateEvent(target, updateData.value)>>
          ELSE /\ pending' = pending
               /\ log' = Append(log, MigrateEvent(target, updateData))
    /\ pc' = [pc EXCEPT !.i = pc.i + 1]
    /\ UNCHANGED <<world, packs, version, initial, harnessVars>>

\* MigrateWorldEntity with the throw of an owned Item caught inside the
\* Actor migrator: the update is called with the patch built so far
MigrateWorldEntityKeepsPartial ==
    /\ pc.at = "world"
    /\ pc.i <= Len(world[WorldKinds[pc.k]])
    /\ LET kind == WorldKinds[pc.k]
           target == WorldTarget(kind, pc.i)
           whole == MigrateEntity(kind, world[kind][pc.i], GameActorIds(world))
           own == _migrateActorSkills(world[kind][pc.i], EmptyObject)
           updateData == IF whole.threw /\ kind = "Actor" /\ ~own.threw
                         THEN own ELSE whole
       IN IF ~updateData.threw /\ ~isObjectEmpty(updateData.value)
          THEN /\ pending' = pending \cup {UpdateCall(target, updateData.value)}
               /\ log' = log \o <<MigrateEvent(target, updateData),
                                  UpdateEvent(target, updateData.value)>>
               /\ pc' = [pc EXCEPT !.at = "awaitUpdate"]
          ELSE /\ pending' = pending
               /\ log' = Append(log, MigrateEvent(target, updateData))
               /\ pc' = [pc EXCEPT !.i = pc.i + 1]
    /\ UNCHANGED <<world, packs, version, initial, harnessVars>>

\* One iteration of a world loop: the try block up to its await, or to its
\* end when no update is due; a throw is caught and logged.
MigrateWorldEntity ==
    /\ pc.at = "world"
    /\ pc.i <= Len(world[WorldKinds[pc.k]])
    /\ LET kind == WorldKinds[pc.k]
           target == WorldTarget(kind, pc.i)
           updateData == MigrateEntity(kind, world[kind][pc.i], GameActorIds(world))
       IN IF ~updateData.threw /\ ~isObjectEmpty(updateData.value)
          THEN /\ pending' = pending \cup {UpdateCall(target, updateData.value)}
               /\ log' = log \o <<MigrateEvent(target, updateData),
                                  UpdateEvent(target, updateData.value)>>
               /\ pc' = [pc EXCEPT !.at = "awaitUpdate"]
          ELSE /\ pending' = pending
               /\ log' = Append(log, MigrateEvent(target, updateData))
               /\ pc' = [pc EXCEPT !.i = pc.i + 1]
    /\ UNCHANGED <<world, packs, version, initial, harnessVars>>

\* await e.update(updateData, {enforceTypes: false}) settles: resolved, the
\* host has merged the patch in; rejected, the catch logs the error
UpdateSettles(ok) ==
    /\ pc.at = "awaitUpdate"
    /\ \E c \in pending :
        /\ c.call = "update"
        /\ c.target = WorldTarget(WorldKinds[pc.k], pc.i)
        /\ pending' = pending \ {c}
        /\ world' = IF ok
                    THEN [world EXCEPT ![c.target.kind][c.target.i] =
                            UpdateEntity(c.target.kind, @, c.patch)]
                    ELSE world
        /\ log' = Append(log, SettleEvent(c.target, ok))
    /\ pc' = [pc EXCEPT !.at = "world", !.i = pc.i + 1]
    /\ UNCHANGED <<packs, version, initial, harnessVars>>

\* a world loop has run out of entities: the next loop, or the packs
NextWorldLoop ==
    /\ pc.at = "world"
    /\ pc.i > Len(world[WorldKinds[pc.k]])
    /\ pc' = IF pc.k < Len(WorldKinds)
             THEN [pc EXCEPT !.k = pc.k + 1, !.i = 1]
             ELSE [at |-> "packs", k |-> 0, p |-> 1, i |-> 0]
    /\ UNCHANGED <<world, packs, pending, log, version, initial, harnessVars>>

\* for ( let p of packs ) await migrateCompendium(p): the entity kind of a
\* filtered pack passes the check of migrateCompendium, which then calls
\* pack.migrate()
CallCompendium ==
    /\ pc.at = "packs"
    /\ pc.p <= Len(EligiblePacks(packs))
    /\ LET p == EligiblePacks(packs)[pc.p]
       IN /\ packs[p].entity \in EntityKinds
          /\ pending' = pending \cup {PackCall("migrate", p)}
    /\ pc' = [pc EXCEPT !.at = "awaitMigrate"]
    /\ UNCHANGED <<world, packs, log, version, initial, harnessVars>>

\* await pack.migrate() settles: resolved, migrateCompendium calls
\* pack.getContent(); rejected, nothing catches the error and the promise
\* of migrateWorld rejects
PackMigrateSettles(ok) ==
    /\ pc.at = "awaitMigrate"
    /\ LET p == EligiblePacks(packs)[pc.p]
       IN /\ PackCall("migrate", p) \in pending
          /\ log' = Append(log, IoEvent("migrate", p, ok))
          /\ IF ok
             THEN /\ pending' = (pending \ {PackCall("migrate", p)})
                                    \cup {PackCall("getContent", p)}
                  /\ pc' = [pc EXCEPT !.at = "awaitContent"]
             ELSE /\ pending' = pending \ {PackCall("migrate", p)}
                  /\ pc' = [pc EXCEPT !.at = "rejected"]
    /\ UNCHANGED <<world, packs, version, initial, harnessVars>>

\* await pack.getContent() settles: resolved, the loop over the content
\* begins; rejected, as for pack.migrate()
PackContentSettles(ok) ==
    /\ pc.at = "awaitContent"
    /\ LET p == EligiblePacks(packs)[pc.p]
       IN /\ PackCall("getContent", p) \in pending
          /\ pending' = pending \ {PackCall("getContent", p)}
          /\ log' = Append(log, IoEvent("getContent", p, ok))
          /\ pc' = IF ok THEN [pc EXCEPT !.at = "content", !.i = 1]
                   ELSE [pc EXCEPT !.at = "rejected"]
    /\ UNCHANGED <<world, packs, version, initial, harnessVars>>

\* One iteration of the loop of migrateCompendium: the patch carries the
\* _id of the entity (the position of the entity in the content). The
\* result of expandObject(updateData) is dropped, so the call changes nothing.
MigrateCompendiumEntity ==
    /\ pc.at = "content"
    /\ LET p == EligiblePacks(packs)[pc.p]
           entity == packs[p].entity
       IN /\ pc.i <= Len(packs[p].content)
          /\ LET target == PackTarget(p, entity, pc.i)
                 updateData == MigrateEntity(entity, packs[p].content[pc.i],
                                             GameActorIds(world))
             IN IF ~updateData.threw /\ ~isObjectEmpty(updateData.value)
                THEN LET withId == SetProp(updateData.value, "_id", Id(pc.i))
                     IN /\ pending' = pending \cup {UpdateCall(target, withId)}
                        /\ log' = log \o <<MigrateEvent(target, updateData),
                                           UpdateEvent(target, withId)>>
                        /\ pc' = [pc EXCEPT !.at = "awaitUpdateEntity"]
                ELSE /\ pending' = pending
                     /\ log' = Append(log, MigrateEvent(target, updateData))
                     /\ pc' = [pc EXCEPT !.i = pc.i + 1]
    /\ UNCHANGED <<world, packs, version, initial, harnessVars>>

\* the patch of pack.updateEntity without the _id that names its entity
WithoutId(patch) == [k \in DOMAIN patch \ {"_id"} |-> patch[k]]

\* await pack.updateEntity(updateData) settles: resolved, the pack has
\* merged the patch into the entity of that _id
UpdateEntitySettles(ok) ==
    /\ pc.at = "awaitUpdateEntity"
    /\ \E c \in pending :
        /\ c.call = "update"
        /\ c.target = PackTarget(EligiblePacks(packs)[pc.p], c.target.kind, pc.i)
        /\ pending' = pending \ {c}
        /\ packs' = IF ok
                    THEN [packs EXCEPT ![c.target.p].content[c.patch["_id"].id] =
                            UpdateEntity(c.target.kind, @, WithoutId(c.patch))]
                    ELSE packs
        /\ log' = Append(log, SettleEvent(c.target, ok))
    /\ pc' = [pc EXCEPT !.at = "content", !.i = pc.i + 1]
    /\ UNCHANGED <<world, version, initial, harnessVars>>

\* migrateCompendium returns: the next pack
FinishCompendium ==
    /\ pc.at = "content"
    /\ pc.i > Len(packs[EligiblePacks(packs)[pc.p]].content)
    /\ pc' = [pc EXCEPT !.at = "packs", !.p = pc.p + 1, !.i = 0]
    /\ UNCHANGED <<world, packs, pending, log, version, initial, harnessVars>>

\* game.settings.set("shadowrun5e", "systemMigrationVersion", ...) after
\* the loop over the packs
RecordVersion ==
    /\ pc.at = "packs"
    /\ pc.p > Len(EligiblePacks(packs))
    /\ version' = version + 1
    /\ log' = Append(log, VersionEvent)
    /\ pc' = [pc EXCEPT !.at = "done"]
    /\ UNCHANGED <<world, packs, pending, initial, harnessVars>>

(* ------------------------------------------------------------------ *)
(*  The worlds migrateWorld runs on                                    *)
(* ------------------------------------------------------------------ *)

\* an Actor in legacy shape, and an Actor one of whose skills owns no specs
LegacyActor == ActorDoc(Num(0), LegacySkills, <<StaleQuality>>)
MalformedActor == ActorDoc(Num(3), Skills([k1 |-> BareSkill], EmptyObject), <<>>)

Weapon == Item("weapon", Undefined, Undefined)

LinkedToken ==
    [actorId |-> Id("A1"), actorLink |-> TRUE, actorData |-> [name |-> "override"]]
\* a Token whose override is a partial Actor without skills
PartialToken ==
    [actorId |-> Id("A1"), actorLink |-> FALSE, actorData |-> [data |-> EmptyObject]]

\* an Actor whose second owned Item makes the Item migrator throw
OwnerOfCyberware ==
    ActorDoc(Num(3), MigratedSkills, <<StaleQuality, CyberwareWithAction>>)

RunActors == {LegacyActor, MalformedActor, OwnerOfCyberware}
RunItems == {StaleQuality, CyberwareWithAction, Weapon}
RunScenes == {SceneDoc(<<LinkedToken>>), SceneDoc(<<LinkedToken, PartialToken>>)}

RunEntities(kind) ==
    IF kind = "Actor" THEN RunActors
    ELSE IF kind = "Item" THEN RunItems
    ELSE RunScenes

Pack(package, entity, content) ==
    [package |-> package, entity |-> entity, content |-> content]

\* the world's own packs of the three kinds, a pack of an installed add-on
\* and a pack of another entity kind, each of at most n entities
PackInputs(n) ==
    {Pack("world", "Actor", content) : content \in SeqsUpTo(RunActors, n)}
    \cup {Pack("world", "Item", content) : content \in SeqsUpTo(RunItems, n)}
    \cup {Pack("world", "Scene", content) : content \in SeqsUpTo(RunScenes, n)}
    \cup {Pack("shadowrun5e", "Item", content) : content \in SeqsUpTo({StaleQuality}, n)}
    \cup {Pack("world", "JournalEntry", <<>>)}

PackSize(pack) == 1 + Len(pack.content)

RECURSIVE PackSeqs(_)
\* the sequences of packs of at most n packs and pack entities together
PackSeqs(n) ==
    IF n <= 0 THEN {<<>>}
    ELSE {<<>>} \cup
         UNION {{<<pack>> \o rest : rest \in PackSeqs(n - PackSize(pack))} :
                    pack \in PackInputs(n - 1)}

\* the state at the call of migrateWorld: any world of at most MaxWorld
\* entities, packs and pack entities
Init ==
    /\ \E n \in [1..3 -> 0..MaxWorld] :
        /\ n[1] + n[2] + n[3] <= MaxWorld
        /\ \E a \in [1..n[1] -> RunActors], i \in [1..n[2] -> RunItems],
              s \in [1..n[3] -> RunScenes],
              ps \in PackSeqs(MaxWorld - n[1] - n[2] - n[3]) :
            /\ world = [Actor |-> a, Item |-> i, Scene |-> s]
            /\ packs = ps
            /\ initial = [w |-> world, ps |-> packs]
    /\ pc = [at |-> "world", k |-> 1, p |-> 0, i |-> 1]
    /\ pending = {}
    /\ log = <<>>
    /\ version = 0
    /\ hEnt = Undefined
    /\ hStage = "off"
    /\ hRes = Undefined
    /\ hRes2 = Undefined

Next ==
    \/ MigrateWorldEntity
    \/ \E ok \in BOOLEAN : UpdateSettles(ok)
    \/ NextWorldLoop
    \/ CallCompendium
    \/ \E ok \in BOOLEAN : PackMigrateSettles(ok)
    \/ \E ok \in BOOLEAN : PackContentSettles(ok)
    \/ MigrateCompendiumEntity
    \/ \E ok \in BOOLEAN : UpdateEntitySettles(ok)
    \/ FinishCompendium
    \/ RecordVersion

Spec == Init /\ [][Next]_vars

(* ------------------------------------------------------------------ *)
(*  A migrator applied to one entity, its patch applied, and the        *)
(*  migrator applied again                                              *)
(* ------------------------------------------------------------------ *)

\* The inputs: every Item of ItemInputs; Actors that vary their skills;
\* Actors that vary their overflow and their owned Items; Scenes of up to
\* MaxTokens Tokens.
IsMigratorInput(e) ==
    \/ \E d \in ItemInputs : e = [kind |-> "Item", doc |-> d]
    \/ \E active \in GroupInputs, rest \in RestInputs :
          e = [kind |-> "Actor",
               doc |-> ActorDoc(Num(3), Skills(active, rest), <<>>)]
    \/ \E overflow \in OverflowInputs, skills \in {LegacySkills, MigratedSkills},
          m \in 0..MaxOwned :
            \E items \in [1..m -> ItemInputs] :
                e = [kind |-> "Actor", doc |-> ActorDoc(overflow, skills, items)]
    \/ \E m \in 0..MaxTokens :
          \E tokens \in [1..m -> TokenInputs] :
              e = [kind |-> "Scene", doc |-> SceneDoc(tokens)]

MigratorInit ==
    /\ IsMigratorInput(hEnt)
    /\ hStage = "input"
    /\ hRes = Undefined
    /\ hRes2 = Undefined
    /\ world = [Actor |-> <<>>, Item |-> <<>>, Scene |-> <<>>]
    /\ packs = <<>>
    /\ initial = [w |-> world, ps |-> packs]
    /\ pc = [at |-> "off", k |-> 0, p |-> 0, i |-> 0]
    /\ pending = {}
    /\ log = <<>>
    /\ version = 0

\* the migrator of the entity's kind is called on it
ApplyMigrator ==
    /\ hStage = "input"
    /\ hRes' = MigrateEntity(hEnt.kind, hEnt.doc, WorldActorIds)
    /\ hStage' = "migrated"
    /\ UNCHANGED <<hEnt, hRes2, runVars>>

\* the returned patch is applied to the entity by its update
ApplyUpdate ==
    /\ hStage = "migrated"
    /\ ~hRes.threw
    /\ hEnt' = [hEnt EXCEPT !.doc = UpdateEntity(hEnt.kind, @, hRes.value)]
    /\ hStage' = "updated"
    /\ UNCHANGED <<hRes, hRes2, runVars>>

\* the migrator is called again on the patched entity
ApplyMigratorAgain ==
    /\ hStage = "updated"
    /\ hRes2' = MigrateEntity(hEnt.kind, hEnt.doc, WorldActorIds)
    /\ hStage' = "remigrated"
    /\ UNCHANGED <<hEnt, hRes, runVars>>

MigratorNext == ApplyMigrator \/ ApplyUpdate \/ ApplyMigratorAgain

MigratorSpec == MigratorInit /\ [][MigratorNext]_vars

(* ------------------------------------------------------------------ *)
(*  Properties of the migrators (checked under MigratorSpec)           *)
(* ------------------------------------------------------------------ *)

Migrated(kind) == hStage = "migrated" /\ hEnt.kind = kind

\* the Item migrator returns a patch for the Item, and the patch is not empty
HasItemUpdate(item) ==
    LET r == migrateItemData(item)
    IN ~r.threw /\ ~isObjectEmpty(r.value)

\* C3: every Entity Migrator is idempotent: once the patch it returned has
\* been applied to the entity, the migrator returns an empty patch for the
\* patched entity.
C3_MigratorsIdempotent ==
    hStage = "remigrated" => (~hRes2.threw /\ isObjectEmpty(hRes2.value))

\* C3, for Items alone: the Item migrator is idempotent wherever it returns.
ItemMigratorIdempotent ==
    (hStage = "remigrated" /\ hEnt.kind = "Item")
        => (~hRes2.threw /\ isObjectEmpty(hRes2.value))

\* C4: for a cyberware Item whose data.capacity is undefined, with or without
\* a data.action, migrateItemData returns a patch that sets data.capacity to
\* 0; for a cyberware Item whose capacity is defined the patch has no
\* capacity entry.
C4_CapacityRule ==
    (Migrated("Item") /\ hEnt.doc.type = "cyberware")
        => /\ ~hRes.threw
           /\ IF Prop(hEnt.doc.data, "capacity") = Undefined
              THEN /\ "data" \in DOMAIN hRes.value
                   /\ Prop(hRes.value.data, "capacity") = Num(0)
              ELSE \/ "data" \notin DOMAIN hRes.value
                   \/ "capacity" \notin DOMAIN hRes.value.data

\* C4, where the code does as claimed: a cyberware Item without data.action.
CapacityRuleWithoutAction ==
    (Migrated("Item") /\ hEnt.doc.type = "cyberware"
        /\ Prop(hEnt.doc.data, "action") = Undefined
        /\ Prop(hEnt.doc.data, "capacity") = Undefined)
        => (~hRes.threw /\ Prop(hRes.value.data, "capacity") = Num(0))

\* the patch of migrateActorData holds an items field
ItemsSet == ~hRes.threw /\ "items" \in DOMAIN hRes.value

\* what the items field has to be: the owned Items in their order, each
\* changed Item merged with its patch, each other Item as it was
ItemsAsClaimed(items, patched) ==
    /\ Len(patched) = Len(items)
    /\ \A n \in 1..Len(items) :
        patched[n] = IF HasItemUpdate(items[n])
                     THEN MergeItem(items[n], migrateItemData(items[n]).value)
                     ELSE items[n]

\* C7: for an Actor that owns Items, migrateActorData sets the items field
\* of the patch if and only if some owned Item has a non-empty Item patch;
\* the field then holds the owned Items in their order, the changed ones
\* merged with their patches and the others as they were.
C7_OwnedItems ==
    (Migrated("Actor") /\ Len(hEnt.doc.items.a) > 0
        /\ ~_migrateActorSkills(hEnt.doc, EmptyObject).threw)
        => /\ ItemsSet <=> \E n \in 1..Len(hEnt.doc.items.a) :
                                HasItemUpdate(hEnt.doc.items.a[n])
           /\ ItemsSet => ItemsAsClaimed(hEnt.doc.items.a, hRes.value.items.a)

\* C7, where the code does as claimed: no owned Item makes the Item
\* migrator throw.
OwnedItemsWhenNoItemThrows ==
    (Migrated("Actor") /\ Len(hEnt.doc.items.a) > 0
        /\ ~_migrateActorSkills(hEnt.doc, EmptyObject).threw
        /\ \A n \in 1..Len(hEnt.doc.items.a) :
                ~migrateItemData(hEnt.doc.items.a[n]).threw)
        => /\ ItemsSet <=> \E n \in 1..Len(hEnt.doc.items.a) :
                                HasItemUpdate(hEnt.doc.items.a[n])
           /\ ItemsSet => ItemsAsClaimed(hEnt.doc.items.a, hRes.value.items.a)

\* the characters of s that are no split character, in their order
Letters(s) == SelectSeq(s, LAMBDA c : c \notin SplitChars)

RECURSIVE Flatten(_)
Flatten(toks) == IF toks = <<>> THEN <<>> ELSE Head(toks) \o Flatten(Tail(toks))

\* toks are the maximal runs of s that hold no split character
IsSplitOf(s, toks) ==
    /\ \A i \in 1..Len(toks) :
        /\ toks[i] # <<>>
        /\ \A j \in 1..Len(toks[i]) : toks[i][j] \notin SplitChars
    /\ Flatten(toks) = Letters(s)
    /\ Len(toks) = Cardinality({i \in 1..Len(s) :
                        /\ s[i] \notin SplitChars
                        /\ (i = 1 \/ s[i - 1] \in SplitChars)})

\* every skill of every group of the Actor owns a specs that is a string or
\* an array
SkillsWellFormed(actor) ==
    \A g \in SkillGroupSet :
        /\ GroupOf(actor, g) # Undefined
        /\ \A k \in DOMAIN GroupOf(actor, g) :
            LET specs == Prop(GroupOf(actor, g)[k], "specs")
            IN IsArray(specs) \/ IsString(specs)

\* C8: the skill-specs rule decides per skill key: in each of the six skill
\* groups, every key whose specs is a string gets a patch entry whose specs
\* is the string split on runs of , / | . without the empty tokens, and every
\* key whose specs is already an array gets no entry.
C8_SkillSpecsPerKey ==
    hEnt.kind = "Actor" =>
        LET r == _migrateActorSkills(hEnt.doc, EmptyObject)
        IN SkillsWellFormed(hEnt.doc) =>
            /\ ~r.threw
            /\ (Migrated("Actor") /\ ~hRes.threw) =>
                    \A g \in SkillGroupSet : hRes.value[g] = r.value[g]
            /\ \A g \in SkillGroupSet :
                LET group == GroupOf(hEnt.doc, g)
                IN /\ DOMAIN r.value[g] = {k \in DOMAIN group : IsString(group[k].specs)}
                   /\ \A k \in DOMAIN r.value[g] :
                        /\ DOMAIN r.value[g][k] = {"specs"}
                        /\ IsArray(r.value[g][k].specs)
                        /\ IsSplitOf(group[k].specs.s, r.value[g][k].specs.a)

\* C8's case: a group with a legacy key next to a migrated key was migrated;
\* only the legacy key got an entry, and an empty specs string gave [].
C8_Witness ==
    /\ Migrated("Actor")
    /\ ~hRes.threw
    /\ LET group == GroupOf(hEnt.doc, SkillGroups[1])
           entry == hRes.value[SkillGroups[1]]
       IN /\ DOMAIN group = {"k1", "k2"}
          /\ group["k1"].specs = Str(<<>>)
          /\ IsArray(group["k2"].specs)
          /\ DOMAIN entry = {"k1"}
          /\ entry["k1"].specs = Arr(<<>>)

\* C9: for every Scene, migrateSceneData returns a patch whose tokens have
\* the length and the order of the Scene's tokens, and in which the override
\* of every Token with actorLink = true is the empty object.
C9_SceneTokens ==
    Migrated("Scene") =>
        /\ ~hRes.threw
        /\ Len(hRes.value.tokens.a) = Len(hEnt.doc.tokens.a)
        /\ \A n \in 1..Len(hEnt.doc.tokens.a) :
            /\ hRes.value.tokens.a[n].actorLink = hEnt.doc.tokens.a[n].actorLink
            /\ hEnt.doc.tokens.a[n].actorLink
                    => hRes.value.tokens.a[n].actorData = EmptyObject

\* C9, where the code does as claimed: migrateSceneData returned a patch.
SceneTokensWhenReturned ==
    (Migrated("Scene") /\ ~hRes.threw) =>
        /\ Len(hRes.value.tokens.a) = Len(hEnt.doc.tokens.a)
        /\ \A n \in 1..Len(hEnt.doc.tokens.a) :
            /\ hRes.value.tokens.a[n].actorLink = hEnt.doc.tokens.a[n].actorLink
            /\ hEnt.doc.tokens.a[n].actorLink
                    => hRes.value.tokens.a[n].actorData = EmptyObject

(* ------------------------------------------------------------------ *)
(*  Properties of migrateWorld (checked under Spec)                    *)
(* ------------------------------------------------------------------ *)

Events(ev) == {n \in 1..Len(log) : log[n].ev = ev}

\* the log holds a migrator call, an update call, a resolved update, a
\* rejected update for the target
MigratorCalls(t) == {n \in Events("migrate") : log[n].target = t}
UpdateCalls(t) == {n \in Events("update") : log[n].target = t}
Applied(t) == \E n \in Events("settle") : log[n].target = t /\ log[n].ok
Rejected(t) == \E n \in Events("settle") : log[n].target = t /\ ~log[n].ok

\* the entity of a target as migrateWorld found it, and as it is stored now
InitialDoc(t) ==
    IF t.src = "world" THEN initial.w[t.kind][t.i]
    ELSE initial.ps[t.p].content[t.i]

StoredDoc(t) ==
    IF t.src = "world" THEN world[t.kind][t.i] ELSE packs[t.p].content[t.i]

\* what the migrator returns for the entity as migrateWorld found it
InitialPatch(t) == MigrateEntity(t.kind, InitialDoc(t), GameActorIds(initial.w))

NeedsUpdate(t) == Outcome(InitialPatch(t)) # "empty"

\* poisoned: the migrator throws for the entity, or its update call rejects
Poisoned(t) == InitialPatch(t).threw \/ Rejected(t)

\* the loop over the world entities of the k-th kind has ended
WorldLoopDone(k) == pc.at \notin {"world", "awaitUpdate"} \/ pc.k > k

\* migrateCompendium has returned for the j-th eligible pack
CompendiumDone(j) == pc.p > j

WorldTargets(k) ==
    {WorldTarget(WorldKinds[k], i) : i \in 1..Len(initial.w[WorldKinds[k]])}

CompendiumTargets(j) ==
    LET p == EligiblePacks(initial.ps)[j]
    IN {PackTarget(p, initial.ps[p].entity, i) : i \in 1..Len(initial.ps[p].content)}

\* the phases that have ended, each as the set of its entities
EndedPhases ==
    {WorldTargets(k) : k \in {x \in 1..Len(WorldKinds) : WorldLoopDone(x)}}
    \cup {CompendiumTargets(j) :
            j \in {x \in 1..Len(EligiblePacks(initial.ps)) : CompendiumDone(x)}}

\* C1: a poisoned entity does not stop its phase. When a phase has ended,
\* the migrator was called once for each of its entities, the update of an
\* entity was applied exactly when it has a patch and is not poisoned, and
\* with all N entities in need of an update and one of them poisoned N - 1
\* updates were applied.
C1_PoisonedEntityIsolated ==
    \A T \in EndedPhases :
        /\ \A t \in T :
            /\ Cardinality(MigratorCalls(t)) = 1
            /\ Applied(t) <=> (Outcome(InitialPatch(t)) = "patch" /\ ~Rejected(t))
        /\ ((\A t \in T : NeedsUpdate(t)) /\ Cardinality({t \in T : Poisoned(t)}) = 1)
                => Cardinality({t \in T : Applied(t)}) = Cardinality(T) - 1

\* a phase has ended whose first entity was poisoned by p (a throw of the
\* migrator or a rejected update) and whose later entity got its update
PoisonedFirst(T, byThrow) ==
    /\ Cardinality(T) >= 2
    /\ \A t \in T : NeedsUpdate(t)
    /\ Cardinality({t \in T : Poisoned(t)}) = 1
    /\ \E t \in T : t.i = 1 /\ Poisoned(t) /\ (InitialPatch(t).threw <=> byThrow)
    /\ Cardinality({t \in T : Applied(t)}) = Cardinality(T) - 1

\* C1's case: the entity loop of a pack ended with its first entity poisoned
\* by a throw and the update of the later entity applied.
C1_Witness ==
    \E j \in 1..Len(EligiblePacks(initial.ps)) :
        CompendiumDone(j) /\ PoisonedFirst(CompendiumTargets(j), TRUE)

\* C1's case in a world loop: the first entity's update rejected.
WorldLoopPoisoned(k) == WorldLoopDone(k) /\ PoisonedFirst(WorldTargets(k), FALSE)

\* C2: the compendium phase is fault-isolated: no failed pack.migrate() or
\* pack.getContent() propagates out of migrateWorld; the packs after it are
\* still migrated and the schema version is recorded.
C2_CompendiumFaultIsolated ==
    (\E n \in Events("io") : ~log[n].ok) =>
        /\ pc.at # "rejected"
        /\ pc.at = "done" =>
            /\ version = 1
            /\ \A j \in 1..Len(EligiblePacks(initial.ps)) :
                \E n \in Events("io") :
                    log[n].call = "migrate" /\ log[n].p = EligiblePacks(initial.ps)[j]

\* every world entity and every entity of every eligible pack has had its
\* migrator called
AllProcessed ==
    /\ \A k \in 1..Len(WorldKinds) : \A t \in WorldTargets(k) : MigratorCalls(t) # {}
    /\ \A j \in 1..Len(EligiblePacks(initial.ps)) :
        /\ \E n \in Events("io") :
              /\ log[n].call = "getContent"
              /\ log[n].p = EligiblePacks(initial.ps)[j]
              /\ log[n].ok
        /\ \A t \in CompendiumTargets(j) : MigratorCalls(t) # {}

\* the version is recorded at most once, after every phase, and nothing
\* follows it
VersionLast ==
    /\ version <= 1
    /\ Cardinality(Events("version")) = version
    /\ version = 1 =>
        /\ AllProcessed
        /\ pending = {}
        /\ log[Len(log)].ev = "version"

\* migrateWorld has ended: its promise resolved or rejected
RunEnded == pc.at \in {"done", "rejected"}

\* C5: migrateWorld records the schema version exactly once and only after
\* all four phases: every world entity and every eligible pack was processed
\* before, and no update call follows.
C5_VersionOnceAfterAllPhases ==
    /\ VersionLast
    /\ RunEnded => version = 1

\* C5, where the code does as claimed: the order of the recording, and the
\* one recording of a run that returns.
VersionOnceWhenReturned ==
    /\ VersionLast
    /\ pc.at = "done" => version = 1

\* C6: the entities are processed one at a time: at most one host call is
\* outstanding, nothing is outstanding where a migrator is about to be
\* called, and every update call issued before a migrator call had settled
\* before it.
C6_OneAtATime ==
    /\ Cardinality(pending) <= 1
    /\ pc.at \in {"world", "content", "packs", "done", "rejected"} => pending = {}
    /\ \A n \in Events("migrate") : \A m \in Events("update") :
            m < n => \E j \in Events("settle") :
                        m < j /\ j < n /\ log[j].target = log[m].target

\* C6's case: an update is outstanding after an earlier update had settled
\* and the migrator of the next entity ran.
C6_Witness ==
    /\ \E c \in pending : c.call = "update"
    /\ Events("settle") # {}
    /\ Cardinality(Events("update")) >= 2

\* the patch an update call has to carry for its target
CompletePatch(t) ==
    IF t.src = "world" THEN InitialPatch(t).value
    ELSE SetProp(InitialPatch(t).value, "_id", Id(t.i))

AllTargets ==
    UNION {WorldTargets(k) : k \in 1..Len(WorldKinds)}
    \cup UNION {CompendiumTargets(j) : j \in 1..Len(EligiblePacks(initial.ps))}

\* C10: patches are applied all-or-nothing per entity: an entity gets at
\* most one update call, the call carries the complete patch its migrator
\* returned, and an entity whose migrator throws gets no update call and
\* keeps its stored data.
C10_AllOrNothing ==
    \A t \in AllTargets :
        /\ Cardinality(UpdateCalls(t)) <= 1
        /\ \A n \in UpdateCalls(t) :
            /\ ~InitialPatch(t).threw
            /\ log[n].patch = CompletePatch(t)
        /\ InitialPatch(t).threw => (UpdateCalls(t) = {} /\ StoredDoc(t) = InitialDoc(t))
        /\ StoredDoc(t) = IF Applied(t)
                          THEN UpdateEntity(t.kind, InitialDoc(t), InitialPatch(t).value)
                          ELSE InitialDoc(t)

\* the migrator throws for the Actor at an owned Item after the Actor's own
\* rules and an earlier Item gave a patch
ThrowsAtOwnedItem(actor) ==
    /\ ~_migrateActorSkills(actor, EmptyObject).threw
    /\ \E n \in 1..Len(actor.items.a) :
        /\ n > 1
        /\ migrateItemData(actor.items.a[n]).threw
        /\ HasItemUpdate(actor.items.a[1])

\* C10's case: the migrator of a world Actor threw at its second owned Item;
\* the Actor got no update call and is stored as before, while another
\* entity got its complete patch applied.
C10_Witness ==
    /\ \E t \in WorldTargets(1) :
        /\ MigratorCalls(t) # {}
        /\ ThrowsAtOwnedItem(InitialDoc(t))
        /\ UpdateCalls(t) = {}
        /\ StoredDoc(t) = InitialDoc(t)
    /\ \E t \in AllTargets : Applied(t) /\ StoredDoc(t) # InitialDoc(t)

====
